---- MODULE Spec2Model ----
(***************************************************************************)
(* State-machine model of the hashcat-wpa-server attack orchestration:     *)
(*   app/worker.py            Attack, _crack_async, HashcatWorker          *)
(*   app/attack/hashcat_cmd.py run_with_status                             *)
(* One ThreadPoolExecutor runs the benchmark future and the attack jobs;   *)
(* each job walks the strategy pipeline, the last step being supervised by *)
(* run_with_status line by line.                                           *)
(***************************************************************************)
EXTENDS Integers, Sequences, FiniteSets, TLC

\* ---------------------------------------------------------------- bounds
\* Number of attack jobs submitted through crack_capture.
MaxJobs == 1
\* Clock ticks that pass while a run_with_status loop is active.
MaxTicks == 2
\* Seconds of wall-clock time per clock tick.
TickSeconds == 45

\* ------------------------------------------------------------- constants
\* An executor with a second worker thread.
workers2 == 1 + 1
\* HashcatWorker.workers: the executor's max_workers.
workers == 1

None == "None"
\* The benchmark future submitted by HashcatWorker.__init__.
Benchmark == 0
Jobs == 1..MaxJobs
Futures == {Benchmark} \cup Jobs
WorkerThreads == 1..workers

\* --------------------------------------------------- text of status lines
\* A line is a sequence of one-character strings; Join builds the lines the
\* engine may print, split/startswith/index/int take them apart as the
\* Python built-ins do.
Digit == [c \in {"0", "1", "2", "3", "4", "5", "6", "7", "8", "9"} |->
            CASE c = "0" -> 0 [] c = "1" -> 1 [] c = "2" -> 2 [] c = "3" -> 3
              [] c = "4" -> 4 [] c = "5" -> 5 [] c = "6" -> 6 [] c = "7" -> 7
              [] c = "8" -> 8 [] c = "9" -> 9]

RECURSIVE Join(_)
Join(words) ==
    IF Len(words) = 0 THEN <<>>
    ELSE IF Len(words) = 1 THEN words[1]
    ELSE words[1] \o <<" ">> \o Join(Tail(words))

\* str.split(): maximal runs of non-whitespace characters.
RECURSIVE splitFrom(_, _, _)
splitFrom(line, i, cur) ==
    IF i > Len(line) THEN (IF cur = <<>> THEN <<>> ELSE <<cur>>)
    ELSE IF line[i] = " "
         THEN (IF cur = <<>> THEN <<>> ELSE <<cur>>) \o splitFrom(line, i + 1, <<>>)
         ELSE splitFrom(line, i + 1, Append(cur, line[i]))

split(line) == splitFrom(line, 1, <<>>)

startswith(line, prefix) ==
    /\ Len(line) >= Len(prefix)
    /\ SubSeq(line, 1, Len(prefix)) = prefix

\* list.index(x): the first position (0-based) of x, -1 standing for ValueError.
index(parts, x) ==
    IF \E i \in 1..Len(parts) : parts[i] = x
    THEN (CHOOSE i \in 1..Len(parts) :
              /\ parts[i] = x
              /\ \A k \in 1..(i - 1) : parts[k] # x) - 1
    ELSE -1

\* int(token) succeeds on a non-empty run of decimal digits.
IsInt(tok) == Len(tok) > 0 /\ \A i \in 1..Len(tok) : tok[i] \in DOMAIN Digit

RECURSIVE int(_)
int(tok) ==
    IF Len(tok) = 0 THEN 0
    ELSE 10 * int(SubSeq(tok, 1, Len(tok) - 1)) + Digit[tok[Len(tok)]]

RECURSIVE Gcd(_, _)
Gcd(a, b) == IF b = 0 THEN a ELSE Gcd(b, a % b)

\* The float 100. * tried / total, kept exact as a reduced fraction.
PercentUnscaled(tried, total) ==
    LET g == Gcd(tried, total)
    IN  [num |-> tried \div g, den |-> total \div g]
Percent(tried, total) ==
    LET g == Gcd(100 * tried, total)
    IN  [num |-> (100 * tried) \div g, den |-> total \div g]

STATUS == <<"S", "T", "A", "T", "U", "S">>
PROGRESS == <<"P", "R", "O", "G", "R", "E", "S", "S">>
SPEED == <<"S", "P", "E", "E", "D">>

\* Lines the external engine may print on its standard output.
Lines == {
    Join(<<STATUS, <<"3">>, PROGRESS, <<"5", "0">>, <<"2", "0", "0">>>>),
    Join(<<STATUS, <<"3">>, PROGRESS, <<"2", "0", "0">>, <<"2", "0", "0">>>>),
    Join(<<<<"h", "a", "s", "h", "c", "a", "t">>, <<"(", "v", "6", ")">>>>),
    Join(<<STATUS, <<"3">>, SPEED, <<"1", "0">>>>),
    Join(<<STATUS, <<"3">>, PROGRESS, <<"5", "0">>>>),
    Join(<<STATUS, <<"3">>, PROGRESS>>),
    Join(<<STATUS, <<"3">>, PROGRESS, <<"x">>, <<"2", "0", "0">>>>),
    Join(<<STATUS, <<"3">>, PROGRESS, <<"5", "0">>, <<"0">>>>) }


\* ------------------------------------------------------------- exceptions
NoExc == [type |-> None, args |-> ""]
Exc(type, args) == [type |-> type, args |-> args]
\* repr(exception): the type's name and the arguments' repr in parentheses.
repr(e) == e.type \o "(" \o e.args \o ")"

\* The clause "except ValueError or IndexError" names the value of
\* (ValueError or IndexError), which is ValueError.
Caught(type) == type = "ValueError"

\* What lines 130-141 of run_with_status do with one line: "skip" (not a
\* status record), "ignore" (an exception the except clause swallows),
\* "raise" (an exception it lets through) or "progress" (lock.progress is set).
ParseStatus(line) ==
    LET parts == split(line)
        progress_index == index(parts, PROGRESS)
        Fail(e) == [kind |-> IF Caught(e.type) THEN "ignore" ELSE "raise",
                    value |-> Percent(0, 1), exc |-> e]
    IN  IF ~startswith(line, STATUS)
        THEN [kind |-> "skip", value |-> Percent(0, 1), exc |-> NoExc]
        ELSE IF progress_index < 0
        THEN Fail(Exc("ValueError", "\"'PROGRESS' is not in list\""))
        ELSE IF progress_index + 2 >= Len(parts)
        THEN Fail(Exc("IndexError", "'list index out of range'"))
        ELSE LET tried_keys == parts[progress_index + 2]
                 total_keys == parts[progress_index + 3]
             IN  IF ~IsInt(tried_keys) \/ ~IsInt(total_keys)
                 THEN Fail(Exc("ValueError", "'invalid literal for int() with base 10'"))
                 ELSE IF int(total_keys) = 0
                 THEN Fail(Exc("ZeroDivisionError", "'float division by zero'"))
                 ELSE [kind |-> "progress",
                       value |-> Percent(int(tried_keys), int(total_keys)),
                       exc |-> NoExc]

\* The uploads crack_capture is called with: the wordlist chosen (or NONE_ENUM)
\* and the timeout, which is None (<<>>) or a number of minutes (<<m>>); None
\* becomes infinity.
Requests == {[wordlist |-> None, timeout |-> <<>>],
             [wordlist |-> "wordlist", timeout |-> <<>>],
             [wordlist |-> "wordlist", timeout |-> <<1>>]}
TimedOut(time_spent, timeout_minutes) ==
    /\ timeout_minutes # <<>>
    /\ time_spent > timeout_minutes[1] * 60

TimeoutErrorOfSeconds(timeout_minutes) ==
    Exc("TimeoutError", "'Timed out after " \o ToString(timeout_minutes[1] * 60) \o " minutes'")
TimeoutErrorOf(timeout_minutes) ==
    Exc("TimeoutError", "'Timed out after " \o ToString(timeout_minutes[1]) \o " minutes'")

\* TaskInfoStatus.CANCELLED, the argument of the InterruptedError.
CANCELLED == "Cancelled"
InterruptedErrorOf == Exc("InterruptedError", "'" \o CANCELLED \o "'")
PopenError == Exc("FileNotFoundError", "2, 'No such file or directory'")


\* ------------------------------------------------------------------ state
VARIABLES
    fstate,             \* each future: absent, pending, running, finished, cancelled
    fexc,               \* the exception a finished future holds, or NoExc
    work_queue,         \* the executor's FIFO queue of work items
    wcur,               \* each worker thread: the future it holds, or NoFuture
    futures,            \* HashcatWorker.futures
    locks,              \* HashcatWorker.locks: job id -> ProgressLock
    task_id_by_job_id,  \* HashcatWorker.task_id_by_job_id
    done_callbacks,     \* callback_attack is in the future's callback list
    pc,                 \* each job's position in _crack_async
    timeout,            \* Attack: the timeout budget in minutes, or <<>>
    wordlist,           \* Attack.wordlist
    essid,              \* Attack.essid
    hcap_file,          \* the .hccapx file exists
    key_file,           \* the .key file's content, or None when it is absent
    key_existed,        \* the .key file was there when the running pipeline began
    proc,               \* the external engine process of the job's current step
    elapsed,            \* clock ticks since run_with_status set start
    lock,               \* each job's ProgressLock fields
    task,               \* each job's durable UploadedTask record
    cb_calls,           \* invocations of callback_attack per job
    rws,                \* one invocation of run_with_status, taken on its own
    plock,              \* the threads using one ProgressLock, taken on their own
    hashcat_cmd,        \* one HashcatCmd object and what build() returned
    stderr_split        \* one call of split_warnings_errors

schedVars == <<fstate, fexc, work_queue, wcur>>
mapVars == <<futures, locks, task_id_by_job_id, done_callbacks>>
attackVars == <<timeout, wordlist, essid, elapsed, key_existed>>
fileVars == <<hcap_file, key_file>>
cbVars == <<lock, task, cb_calls>>
\* The worker and its jobs.
workerVars == <<fstate, fexc, work_queue, wcur, futures, locks, task_id_by_job_id,
                done_callbacks, pc, timeout, wordlist, essid, hcap_file, key_file,
                key_existed, proc, elapsed, lock, task, cb_calls>>
\* The units that are also examined on their own, outside a running worker.
unitVars == <<rws, plock, hashcat_cmd, stderr_split>>
vars == <<fstate, fexc, work_queue, wcur, futures, locks, task_id_by_job_id,
          done_callbacks, pc, timeout, wordlist, essid, hcap_file, key_file,
          key_existed, proc, elapsed, lock, task, cb_calls,
          rws, plock, hashcat_cmd, stderr_split>>

\* The value of a unit's variable while the unit is not being examined.
Unused == "unused"

NoFuture == -1
EmptyMap == [x \in {} |-> 0]

\* ProgressLock(): the fields of a fresh progress record.
ProgressLock ==
    [progress |-> Percent(0, 1), cancelled |-> FALSE, completed |-> FALSE,
     status |-> "Scheduled", key |-> None]

\* The UploadedTask row as the uploader stored it; commits counts the
\* db.session.commit() calls made for it.
UploadedTask ==
    [status |-> "Scheduled", progress |-> Percent(0, 1), found_key |-> None,
     commits |-> 0]

\* The .key file a successful engine run writes, and the key in it.
KeyFileContent == "essid:password"
extract_essid_key(content) == IF content = KeyFileContent THEN "password" ELSE None

InitWorker ==
    /\ fstate = [f \in Futures |-> IF f = Benchmark THEN "pending" ELSE "absent"]
    /\ fexc = [f \in Futures |-> NoExc]
    /\ work_queue = <<Benchmark>>
    /\ wcur = [w \in WorkerThreads |-> NoFuture]
    /\ futures = <<Benchmark>>
    /\ locks = EmptyMap
    /\ task_id_by_job_id = EmptyMap
    /\ done_callbacks = [j \in Jobs |-> FALSE]
    /\ pc = [j \in Jobs |-> "cap2hccapx"]
    /\ timeout = [j \in Jobs |-> <<>>]
    /\ wordlist = [j \in Jobs |-> None]
    /\ essid = [j \in Jobs |-> None]
    /\ hcap_file = [j \in Jobs |-> FALSE]
    /\ key_file = [j \in Jobs |-> None]
    /\ key_existed = [j \in Jobs |-> FALSE]
    /\ proc = [j \in Jobs |-> "none"]
    /\ elapsed = [j \in Jobs |-> 0]
    /\ lock = [j \in Jobs |-> ProgressLock]
    /\ task = [j \in Jobs |-> UploadedTask]
    /\ cb_calls = [j \in Jobs |-> 0]

Init ==
    /\ InitWorker
    /\ rws = Unused
    /\ plock = Unused
    /\ hashcat_cmd = Unused
    /\ stderr_split = Unused

\* ------------------------------------------------------ completion handler
\* callback_attack(future), called with the future in state st holding exc.
\* self.locks[job_id] raises KeyError on a missing entry and
\* future.exception() raises CancelledError on a cancelled future: the
\* handler then ends before it touches the lock or the task.
callback_raises(j, st, lks) ==
    \/ j \notin DOMAIN lks
    \/ st = "cancelled"

\* Lines 260-266: the first block under the lock.
callback_lockNoStatus(l, st, exc) == [l EXCEPT !.completed = TRUE]
callback_lock(l, st, exc) ==
    IF exc # NoExc
    THEN [l EXCEPT !.status = repr(exc), !.completed = TRUE]
    ELSE IF st = "cancelled"
    THEN [l EXCEPT !.status = "Canceled", !.completed = TRUE]
    ELSE [l EXCEPT !.completed = TRUE]

\* Lines 268-274: the copy into the task and the commit.
callback_task(t, l) ==
    [t EXCEPT !.status = l.status, !.progress = l.progress,
              !.found_key = l.key, !.commits = @ + 1]

\* The handler's effect on the jobs in C, each called with its future in
\* the state st[j], the maps being lks and tids at that moment.
callback_attack(C, st, lks, tids) ==
    /\ cb_calls' = [j \in Jobs |-> IF j \in C THEN cb_calls[j] + 1 ELSE cb_calls[j]]
    /\ lock' = [j \in Jobs |->
                  IF j \in C /\ ~callback_raises(j, st[j], lks)
                  THEN callback_lock(lock[j], st[j], fexc[j])
                  ELSE lock[j]]
    /\ task' = [j \in Jobs |->
                  IF j \in C /\ ~callback_raises(j, st[j], lks) /\ j \in DOMAIN tids
                  THEN callback_task(task[j], callback_lock(lock[j], st[j], fexc[j]))
                  ELSE task[j]]

\* --------------------------------------------------------------- scheduler
\* crack_capture, lines 283-285: the lock, the Attack and executor.submit.
\* Jobs are numbered in the order of their submission.
CrackSubmit(j) ==
    /\ fstate[j] = "absent"
    /\ \A i \in Jobs : i < j => fstate[i] # "absent"
    /\ \E r \in Requests :
          /\ timeout' = [timeout EXCEPT ![j] = r.timeout]
          /\ wordlist' = [wordlist EXCEPT ![j] = r.wordlist]
    /\ fstate' = [fstate EXCEPT ![j] = "pending"]
    /\ work_queue' = Append(work_queue, j)
    /\ UNCHANGED <<fexc, wcur, mapVars, pc, essid, elapsed, key_existed, fileVars,
                   proc, cbVars,
                   unitVars>>

\* crack_capture, lines 286-290: the two maps, add_done_callback (which calls
\* the handler at once when the future is already done) and futures.append.
\* add_done_callback is line 289, after the assignments of lines 287-288:
\* the handler it calls sees each map as it is after them.
add_done_callback_mapBefore(before, after) == before
add_done_callback_map(before, after) == after

CrackRegister(j) ==
    /\ fstate[j] # "absent"
    /\ j \notin DOMAIN locks
    /\ locks' = locks @@ (j :> j)
    /\ task_id_by_job_id' = task_id_by_job_id @@ (j :> j)
    /\ futures' = Append(futures, j)
    /\ IF fstate[j] \in {"finished", "cancelled"}
       THEN /\ callback_attack({j}, fstate,
                               add_done_callback_map(locks, locks'),
                               add_done_callback_map(task_id_by_job_id, task_id_by_job_id'))
            /\ UNCHANGED done_callbacks
       ELSE /\ done_callbacks' = [done_callbacks EXCEPT ![j] = TRUE]
            /\ UNCHANGED cbVars
    /\ UNCHANGED <<schedVars, pc, attackVars, fileVars, proc,
                   unitVars>>

\* A worker thread of the executor takes the next work item; an item whose
\* future was cancelled is dropped (set_running_or_notify_cancel). The .key
\* file of an earlier run of the same capture may be there when a job starts.
WorkerTake(w) ==
    /\ wcur[w] = NoFuture
    /\ work_queue # <<>>
    /\ LET f == Head(work_queue)
       IN  /\ work_queue' = Tail(work_queue)
           /\ IF fstate[f] = "cancelled"
              THEN UNCHANGED <<fstate, wcur, key_file, key_existed>>
              ELSE /\ fstate' = [fstate EXCEPT ![f] = "running"]
                   /\ wcur' = [wcur EXCEPT ![w] = f]
                   /\ IF f = Benchmark
                      THEN UNCHANGED <<key_file, key_existed>>
                      ELSE \E k \in {None, KeyFileContent} :
                             /\ key_file' = [key_file EXCEPT ![f] = k]
                             /\ key_existed' = [key_existed EXCEPT ![f] = (k # None)]
    /\ UNCHANGED <<fexc, mapVars, pc, timeout, wordlist, essid, elapsed, hcap_file,
                   proc, cbVars,
                   unitVars>>

\* _hashcat_benchmark_async runs to its end; the benchmark future has no
\* done-callback.
BenchmarkRun(w) ==
    /\ wcur[w] = Benchmark
    /\ fstate[Benchmark] = "running"
    /\ fstate' = [fstate EXCEPT ![Benchmark] = "finished"]
    /\ wcur' = [wcur EXCEPT ![w] = NoFuture]
    /\ UNCHANGED <<fexc, work_queue, mapVars, pc, attackVars, fileVars, proc, cbVars,
                   unitVars>>

\* After set_result / set_exception the worker thread invokes the callbacks
\* in the future's list, then is free for the next work item. The files and
\* the engine processes of a job that is over are no longer kept track of.
WorkerCallbacks(w) ==
    /\ wcur[w] \in Jobs
    /\ fstate[wcur[w]] = "finished"
    /\ IF done_callbacks[wcur[w]]
       THEN callback_attack({wcur[w]}, fstate, locks, task_id_by_job_id)
       ELSE UNCHANGED cbVars
    /\ wcur' = [wcur EXCEPT ![w] = NoFuture]
    /\ proc' = [proc EXCEPT ![wcur[w]] = "none"]
    /\ hcap_file' = [hcap_file EXCEPT ![wcur[w]] = FALSE]
    /\ key_file' = [key_file EXCEPT ![wcur[w]] = None]
    /\ UNCHANGED <<fstate, fexc, work_queue, mapVars, pc, attackVars,
                   unitVars>>

\* terminate(): future.cancel() on every future of self.futures that is not
\* done (only a pending one is cancelled, and its callbacks run at once),
\* then pkill hashcat, which ends every running engine process.
terminate_cancelled ==
    {f \in Futures : /\ \E i \in 1..Len(futures) : futures[i] = f
                     /\ fstate[f] = "pending"}

\* pkill hashcat on the job's engine process: a running one is killed.
pkill(j) == IF proc[j] = "running" THEN "killed" ELSE proc[j]

Terminate ==
    /\ fstate' = [f \in Futures |->
                    IF f \in terminate_cancelled THEN "cancelled" ELSE fstate[f]]
    /\ callback_attack({j \in Jobs : j \in terminate_cancelled /\ done_callbacks[j]},
                       fstate', locks, task_id_by_job_id)
    /\ proc' = [j \in Jobs |-> pkill(j)]
    /\ UNCHANGED <<fexc, work_queue, wcur, mapVars, pc, attackVars, fileVars,
                   unitVars>>

\* A holder of the ProgressLock (the cancel route of the web layer) requests
\* cancellation of a job not yet completed: the flag is set under the lock
\* and never cleared.
RequestCancel(j) ==
    /\ j \in DOMAIN locks
    /\ ~lock[j].cancelled
    /\ ~lock[j].completed
    /\ lock' = [lock EXCEPT ![j].cancelled = TRUE]
    /\ UNCHANGED <<schedVars, mapVars, pc, attackVars, fileVars, proc, task, cb_calls,
                   unitVars>>


\* ---------------------------------------------------------------- pipeline
\* _crack_async, lines 206-213: the calls in their order.
PipelineDigitsFirst == <<"cap2hccapx", "run_essid_attack", "run_digits8",
                         "run_weak_passwords", "run_main_wordlist", "get_key_status">>
Pipeline == <<"cap2hccapx", "run_essid_attack", "run_weak_passwords",
              "run_digits8", "run_main_wordlist", "get_key_status">>

\* The call that follows the call of step.
NextCall(step) ==
    LET i == CHOOSE k \in 1..Len(Pipeline) : Pipeline[k] = step
    IN  Pipeline[i + 1]

Running(j) == j \in Jobs /\ fstate[j] = "running"

is_already_cracked(j) == key_file[j] # None
is_attack_neededAlways(j) == hcap_file[j]
is_attack_needed(j) == hcap_file[j] /\ ~is_already_cracked(j)

get_key_statusNoHandshakeCheck(j) ==
    IF key_file[j] # None
    THEN [key |-> extract_essid_key(key_file[j]), status |-> "Completed"]
    ELSE [key |-> None, status |-> "Completed"]
get_key_status(j) ==
    IF key_file[j] # None
    THEN [key |-> extract_essid_key(key_file[j]), status |-> "Completed"]
    ELSE IF ~hcap_file[j]
    THEN [key |-> None, status |-> "0 WPA handshakes captured"]
    ELSE [key |-> None, status |-> "Completed"]

\* The converter's standard output, line by line: a line without the ESSID=
\* marker, one with the marker and the " (Length:" marker, one with the
\* ESSID= marker alone.
ConverterOutputs == {<<>>, <<"plain">>, <<"plain", "essid">>, <<"essid_unterminated">>}

\* parse_essid: the first line holding ESSID= decides; line.index raises
\* ValueError when " (Length:" does not follow.
parse_essid(stdout) ==
    LET hits == {i \in 1..Len(stdout) : stdout[i] # "plain"}
        first == CHOOSE i \in hits : \A k \in hits : i <= k
    IN  IF hits = {} THEN [essid |-> None, exc |-> NoExc]
        ELSE IF stdout[first] = "essid" THEN [essid |-> "MyWiFi", exc |-> NoExc]
        ELSE [essid |-> None, exc |-> Exc("ValueError", "'substring not found'")]

\* _crack_async is left: its Attack object (essid, wordlist, timeout, the
\* files it looked at) and the locals of run_with_status go with it.
Leave(j) ==
    /\ essid' = [essid EXCEPT ![j] = None]
    /\ timeout' = [timeout EXCEPT ![j] = <<>>]
    /\ wordlist' = [wordlist EXCEPT ![j] = None]
    /\ elapsed' = [elapsed EXCEPT ![j] = 0]
    /\ key_existed' = [key_existed EXCEPT ![j] = FALSE]

\* An exception leaves _crack_async: the future is finished with it.
Raise(j, e) ==
    /\ fstate' = [fstate EXCEPT ![j] = "finished"]
    /\ fexc' = [fexc EXCEPT ![j] = e]
    /\ pc' = [pc EXCEPT ![j] = "raised"]
    /\ Leave(j)

\* The pipeline goes on: the future and the Attack object stay as they are.
Stay == UNCHANGED <<fstate, fexc, attackVars>>

\* An engine process is started for the job, which waits for it at wait.
Launch(j, wait) ==
    /\ proc' = [proc EXCEPT ![j] = "running"]
    /\ pc' = [pc EXCEPT ![j] = wait]

\* The exit status of an engine process: that of the signal when it was
\* killed, else 0 (cracked) or 1 (exhausted).
ExitCodes(p) == IF p = "killed" THEN {-15} ELSE {0, 1}

\* The process has ended with exit status rc; nothing reads rc.
Reaped(rc) == IF rc = 0 THEN "exit_zero" ELSE "exit_nonzero"

\* What the actions of one job's pipeline leave alone.
pipeFrame == <<work_queue, wcur, mapVars, task, cb_calls, unitVars>>

\* cap2hccapx(): subprocess_call of the converter, then parse_essid.
Cap2hccapx(j) ==
    /\ Running(j)
    /\ pc[j] = "cap2hccapx"
    /\ \E popen_ok \in BOOLEAN, out \in ConverterOutputs, h \in BOOLEAN :
          IF ~popen_ok
          THEN /\ Raise(j, PopenError)
               /\ UNCHANGED hcap_file
          ELSE /\ hcap_file' = [hcap_file EXCEPT ![j] = h]
               /\ IF parse_essid(out).exc # NoExc
                  THEN Raise(j, parse_essid(out).exc)
                  ELSE /\ essid' = [essid EXCEPT ![j] = parse_essid(out).essid]
                       /\ pc' = [pc EXCEPT ![j] = NextCall("cap2hccapx")]
                       /\ UNCHANGED <<fstate, fexc, timeout, wordlist, elapsed,
                                      key_existed>>
    /\ UNCHANGED <<pipeFrame, key_file, proc, lock>>

\* A step that starts its engine process with subprocess.Popen, up to the
\* Popen: skipped when skip holds, and Popen may fail to start the process.
PopenStep(j, step, skip, wait) ==
    /\ Running(j)
    /\ pc[j] = step
    /\ IF skip
       THEN /\ pc' = [pc EXCEPT ![j] = NextCall(step)]
            /\ Stay
            /\ UNCHANGED proc
       ELSE \E popen_ok \in BOOLEAN :
              IF popen_ok
              THEN /\ Launch(j, wait)
                   /\ Stay
              ELSE /\ Raise(j, PopenError)
                   /\ UNCHANGED proc
    /\ UNCHANGED <<pipeFrame, fileVars, lock>>

\* A step's engine process has ended and the step returns to _crack_async.
StepReturn(j, wait, step) ==
    /\ Running(j)
    /\ pc[j] = wait
    /\ proc[j] \in {"running", "killed"}
    /\ \E rc \in ExitCodes(proc[j]) : proc' = [proc EXCEPT ![j] = Reaped(rc)]
    /\ pc' = [pc EXCEPT ![j] = NextCall(step)]
    /\ UNCHANGED <<fstate, fexc, timeout, wordlist, essid, key_existed>>
    /\ UNCHANGED <<pipeFrame, fileVars, lock>>

\* run_essid_attack() up to the Popen of _run_essid_digits.
RunEssidAttack(j) ==
    PopenStep(j, "run_essid_attack", essid[j] = None \/ ~is_attack_needed(j),
              "run_essid_digits")

\* _run_essid_digits returns from communicate(); _run_essid_rule follows at
\* once and starts its shell pipeline with os.system.
\* Line 133 follows line 132 with no test between them.
after_run_essid_digitsRecheck(j) == IF is_attack_needed(j) THEN "run_essid_rule" ELSE "return"
after_run_essid_digits(j) == "run_essid_rule"

EssidDigitsReturn(j) ==
    /\ Running(j)
    /\ pc[j] = "run_essid_digits"
    /\ proc[j] \in {"running", "killed"}
    /\ IF after_run_essid_digits(j) = "run_essid_rule"
       THEN Launch(j, "run_essid_rule")
       ELSE /\ \E rc \in ExitCodes(proc[j]) : proc' = [proc EXCEPT ![j] = Reaped(rc)]
            /\ pc' = [pc EXCEPT ![j] = NextCall("run_essid_attack")]
    /\ Stay
    /\ UNCHANGED <<pipeFrame, fileVars, lock>>

\* os.system of _run_essid_rule returns.
EssidRuleReturn(j) ==
    /\ StepReturn(j, "run_essid_rule", "run_essid_attack")
    /\ UNCHANGED elapsed

\* run_weak_passwords() up to os.system, which raises nothing.
RunWeakPasswords(j) ==
    /\ Running(j)
    /\ pc[j] = "run_weak_passwords"
    /\ IF ~is_attack_needed(j)
       THEN /\ pc' = [pc EXCEPT ![j] = NextCall("run_weak_passwords")]
            /\ UNCHANGED proc
       ELSE Launch(j, "weak_wait")
    /\ Stay
    /\ UNCHANGED <<pipeFrame, fileVars, lock>>

WeakPasswordsReturn(j) ==
    /\ StepReturn(j, "weak_wait", "run_weak_passwords")
    /\ UNCHANGED elapsed

\* run_digits8() up to the Popen of subprocess_call.
RunDigits8(j) == PopenStep(j, "run_digits8", ~is_attack_needed(j), "digits8_wait")

Digits8Return(j) ==
    /\ StepReturn(j, "digits8_wait", "run_digits8")
    /\ UNCHANGED elapsed

\* A running engine process recovers the key and writes the .key file.
EngineCracks(j) ==
    /\ j \in Jobs
    /\ proc[j] = "running"
    /\ key_file[j] = None
    /\ key_file' = [key_file EXCEPT ![j] = KeyFileContent]
    /\ UNCHANGED <<schedVars, mapVars, pc, attackVars, hcap_file, proc, cbVars,
                   unitVars>>


\* ----------------------------------------------------------- run_with_status
\* The head of the loop body, lines 122-129, under the lock: whether
\* process.terminate() is called and the exception that leaves the loop (or
\* NoExc). The cancellation flag is looked at before the time spent.
run_with_status_checkNoTerminate(l, time_spent, timeout_minutes) ==
    IF l.cancelled
    THEN [terminate |-> FALSE, exc |-> InterruptedErrorOf]
    ELSE IF TimedOut(time_spent, timeout_minutes)
    THEN [terminate |-> FALSE, exc |-> TimeoutErrorOf(timeout_minutes)]
    ELSE [terminate |-> FALSE, exc |-> NoExc]
run_with_status_checkTimeoutFirst(l, time_spent, timeout_minutes) ==
    IF TimedOut(time_spent, timeout_minutes)
    THEN [terminate |-> TRUE, exc |-> TimeoutErrorOf(timeout_minutes)]
    ELSE IF l.cancelled
    THEN [terminate |-> TRUE, exc |-> InterruptedErrorOf]
    ELSE [terminate |-> FALSE, exc |-> NoExc]
run_with_status_check(l, time_spent, timeout_minutes) ==
    IF l.cancelled
    THEN [terminate |-> TRUE, exc |-> InterruptedErrorOf]
    ELSE IF TimedOut(time_spent, timeout_minutes)
    THEN [terminate |-> TRUE, exc |-> TimeoutErrorOf(timeout_minutes)]
    ELSE [terminate |-> FALSE, exc |-> NoExc]

\* The rest of the loop body, lines 130-141, on the line read: the exception
\* that leaves the loop (or NoExc) and the ProgressLock afterwards.
run_with_status_parse(l, line) ==
    LET r == ParseStatus(line)
    IN  IF r.kind = "raise" THEN [exc |-> r.exc, lock |-> l]
        ELSE IF r.kind = "progress"
        THEN [exc |-> NoExc, lock |-> [l EXCEPT !.progress = r.value]]
        ELSE [exc |-> NoExc, lock |-> l]

\* run_main_wordlist() up to the Popen of run_with_status, lines 111-120.
RunMainWordlist(j) ==
    PopenStep(j, "run_main_wordlist", wordlist[j] = None \/ ~is_attack_needed(j),
              "run_with_status")

\* The loop has read a line of the process's standard output and looks at
\* the cancellation flag and the time spent, lines 121-129.
RwsCheck(j) ==
    /\ Running(j)
    /\ pc[j] = "run_with_status"
    /\ proc[j] = "running"
    /\ LET r == run_with_status_check(lock[j], elapsed[j] * TickSeconds, timeout[j])
       IN  /\ proc' = [proc EXCEPT ![j] = IF r.terminate THEN "terminated" ELSE @]
           /\ IF r.exc # NoExc
              THEN Raise(j, r.exc)
              ELSE /\ pc' = [pc EXCEPT ![j] = "parse_status"]
                   /\ Stay
    /\ UNCHANGED <<pipeFrame, fileVars, lock>>

\* The line is parsed and the progress written under the lock, lines 130-141.
RwsParse(j) ==
    /\ Running(j)
    /\ pc[j] = "parse_status"
    /\ \E line \in Lines :
         LET r == run_with_status_parse(lock[j], line)
         IN  /\ lock' = [lock EXCEPT ![j] = r.lock]
             /\ IF r.exc # NoExc
                THEN Raise(j, r.exc)
                ELSE /\ pc' = [pc EXCEPT ![j] = "run_with_status"]
                     /\ Stay
    /\ UNCHANGED <<pipeFrame, fileVars, proc>>

\* readline() returns '' once the process has ended: the loop is left and
\* run_with_status returns, its locals with it.
RwsEof(j) ==
    /\ StepReturn(j, "run_with_status", "run_main_wordlist")
    /\ elapsed' = [elapsed EXCEPT ![j] = 0]

\* Wall-clock time passes while the loop waits for the next line.
Tick(j) ==
    /\ Running(j)
    /\ pc[j] = "run_with_status"
    /\ elapsed[j] < MaxTicks
    /\ elapsed' = [elapsed EXCEPT ![j] = @ + 1]
    /\ UNCHANGED <<schedVars, mapVars, pc, timeout, wordlist, essid, key_existed,
                   fileVars, proc, cbVars,
                   unitVars>>

\* _crack_async, lines 213-217: get_key_status and the final write under the
\* lock; the function returns and the future is finished.
GetKeyStatus(j) ==
    /\ Running(j)
    /\ pc[j] = "get_key_status"
    /\ lock' = [lock EXCEPT ![j].status = get_key_status(j).status,
                            ![j].key = get_key_status(j).key,
                            ![j].completed = TRUE]
    /\ fstate' = [fstate EXCEPT ![j] = "finished"]
    /\ pc' = [pc EXCEPT ![j] = "done"]
    /\ Leave(j)
    /\ UNCHANGED <<fexc, pipeFrame, fileVars, proc>>

\* ------------------------------------------------------------ specification
Next ==
    \/ \E j \in Jobs : CrackSubmit(j)
    \/ \E j \in Jobs : CrackRegister(j)
    \/ \E w \in WorkerThreads : WorkerTake(w)
    \/ \E w \in WorkerThreads : BenchmarkRun(w)
    \/ \E w \in WorkerThreads : WorkerCallbacks(w)
    \/ Terminate
    \/ \E j \in Jobs : RequestCancel(j)
    \/ \E j \in Jobs : Cap2hccapx(j)
    \/ \E j \in Jobs : RunEssidAttack(j)
    \/ \E j \in Jobs : EssidDigitsReturn(j)
    \/ \E j \in Jobs : EssidRuleReturn(j)
    \/ \E j \in Jobs : RunWeakPasswords(j)
    \/ \E j \in Jobs : WeakPasswordsReturn(j)
    \/ \E j \in Jobs : RunDigits8(j)
    \/ \E j \in Jobs : Digits8Return(j)
    \/ \E j \in Jobs : RunMainWordlist(j)
    \/ \E j \in Jobs : RwsCheck(j)
    \/ \E j \in Jobs : RwsParse(j)
    \/ \E j \in Jobs : RwsEof(j)
    \/ \E j \in Jobs : Tick(j)
    \/ \E j \in Jobs : EngineCracks(j)
    \/ \E j \in Jobs : GetKeyStatus(j)

Spec == Init /\ [][Next]_vars


\* ------------------------------------------------------------------- claims
\* The job's future is held by a worker thread.
Held(j) == \E w \in WorkerThreads : wcur[w] = j

\* The pipeline step a position of _crack_async belongs to, in the order the
\* specification gives: format conversion, identifier-based attack,
\* weak-password attack, long-digit attack, user-supplied wordlist attack,
\* final state resolution.
StepRank(p) ==
    CASE p = "cap2hccapx" -> 1
      [] p \in {"run_essid_attack", "run_essid_digits", "run_essid_rule"} -> 2
      [] p \in {"run_weak_passwords", "weak_wait"} -> 3
      [] p \in {"run_digits8", "digits8_wait"} -> 4
      [] p \in {"run_main_wordlist", "run_with_status", "parse_status"} -> 5
      [] p = "get_key_status" -> 6
      [] p = "done" -> 7
      [] OTHER -> 0

\* The positions at which a step is about to be called, and those at which
\* a step waits for its engine process.
CallPositions == {"cap2hccapx", "run_essid_attack", "run_weak_passwords",
                  "run_digits8", "run_main_wordlist", "get_key_status"}
WaitPositions == {"run_essid_digits", "run_essid_rule", "weak_wait",
                  "digits8_wait", "run_with_status", "parse_status"}

\* This step starts an engine process for job j.
Launches(j) == proc'[j] = "running" /\ pc'[j] \in WaitPositions /\ pc'[j] # pc[j]

\* C1: once terminate() has killed the engine process of a running job, the
\* job ends with the cancellation outcome at its next step, and starts no
\* further engine process.
C1_TerminateStopsRunningJob ==
    [][\A j \in Jobs :
          (Running(j) /\ proc[j] = "killed")
              => /\ ~Launches(j)
                 /\ pc'[j] # pc[j] => (pc'[j] = "raised" /\ fexc'[j] = InterruptedErrorOf)]_vars

\* C2: once the completion handler has been called for a job it has been
\* called exactly once, the ProgressLock is marked completed, holds the
\* error's description or the cancellation status, and the task record holds
\* the lock's status, progress and key and was committed; and every job
\* that is over and registered has had its handler called.
C2_HandlerCompletesEveryJob ==
    \A j \in Jobs :
        /\ (fstate[j] \in {"finished", "cancelled"} /\ j \in DOMAIN locks /\ ~Held(j))
               => cb_calls[j] >= 1
        /\ cb_calls[j] >= 1
               => /\ cb_calls[j] = 1
                  /\ lock[j].completed
                  /\ fexc[j] # NoExc => lock[j].status = repr(fexc[j])
                  /\ fstate[j] = "cancelled" => lock[j].status \in {"Canceled", CANCELLED}
                  /\ task[j].commits = 1
                  /\ task[j].status = lock[j].status
                  /\ task[j].progress = lock[j].progress
                  /\ task[j].found_key = lock[j].key

\* C3: when the head of the run_with_status loop finds the cancellation
\* flag set, it leaves the loop by raising the interrupted-by-cancellation
\* outcome, the engine process has been terminated by then, and the progress
\* is not changed, neither by that step nor after the raise.
C3_CancelTerminatesBeforeRaise ==
    [][\A j \in Jobs :
          /\ (pc[j] = "run_with_status" /\ lock[j].cancelled
              /\ pc'[j] \in {"parse_status", "raised"})
                => /\ pc'[j] = "raised"
                   /\ fexc'[j] = InterruptedErrorOf
                   /\ proc'[j] = "terminated"
                   /\ lock'[j].progress = lock[j].progress
          /\ pc[j] = "raised" => lock'[j].progress = lock[j].progress]_vars

C3_Witness ==
    \E j \in Jobs :
        /\ pc[j] = "raised"
        /\ fexc[j] = InterruptedErrorOf
        /\ proc[j] = "terminated"
        /\ lock[j].cancelled

\* The time the run_with_status loop of job j has spent is over the job's
\* budget.
OverBudget(j) == timeout[j] # <<>> /\ elapsed[j] * TickSeconds > timeout[j][1] * 60

\* C4 as stated: once the time spent in the attack is over the budget and no
\* cancellation is pending, the attack ends in no other way than the
\* timed-out outcome.
C4_OverBudgetEndsInTimeout ==
    [][\A j \in Jobs :
          (pc[j] = "run_with_status" /\ OverBudget(j) /\ ~lock[j].cancelled
           /\ pc'[j] # pc[j])
              => (pc'[j] = "raised" /\ fexc'[j].type = "TimeoutError")]_vars

\* C4: when the head of the run_with_status loop, having read a line, finds
\* no cancellation and the time spent since the loop was entered over the
\* budget, the process is terminated and the loop is left with a
\* TimeoutError whose message names the budget in minutes; while the budget
\* is unset or not exceeded, no TimeoutError is raised.
C4_TimeoutAtLineBoundary ==
    [][\A j \in Jobs :
          /\ (pc[j] = "run_with_status" /\ OverBudget(j) /\ ~lock[j].cancelled
              /\ pc'[j] \in {"parse_status", "raised"})
                => /\ pc'[j] = "raised"
                   /\ proc'[j] = "terminated"
                   /\ fexc'[j] = [type |-> "TimeoutError",
                                  args |-> "'Timed out after 1 minutes'"]
          /\ (pc[j] = "run_with_status" /\ ~OverBudget(j))
                => fexc'[j].type # "TimeoutError"]_vars

C4_Witness ==
    \E j \in Jobs :
        /\ pc[j] = "raised"
        /\ fexc[j].type = "TimeoutError"
        /\ proc[j] = "terminated"
        /\ ~lock[j].cancelled

\* C5: at most one future is running at any time, and a future has started
\* only if every future submitted before it is finished or cancelled.
C5_OneTaskAtATimeInOrder ==
    /\ Cardinality({f \in Futures : fstate[f] = "running"}) <= 1
    /\ \A f, g \in Futures :
          (f < g /\ fstate[g] \in {"running", "finished"})
              => fstate[f] \in {"finished", "cancelled"}

C5_Witness ==
    \E j \in Jobs :
        /\ fstate[j] = "running"
        /\ fstate[Benchmark] = "finished"
        /\ \A g \in Jobs : g > j => fstate[g] \in {"absent", "pending"}

\* C6: a strategy step that begins while the result file exists starts no
\* engine process; a job whose result file existed when it began starts none
\* at all.
C6_NoEngineWhenAlreadyCracked ==
    [][\A j \in Jobs :
          /\ (pc[j] \in CallPositions /\ key_file[j] # None) => ~Launches(j)
          /\ key_existed[j] => proc'[j] # "running"]_vars

C6_Witness ==
    \E j \in Jobs :
        /\ pc[j] = "get_key_status"
        /\ key_existed[j]
        /\ key_file[j] # None
        /\ hcap_file[j]
        /\ wordlist[j] # None

\* C7: a job starts at the format conversion; each change of position stays
\* within the step, goes on to the step next in the order conversion,
\* identifier-based, weak-password, long-digit, wordlist, final state
\* resolution, end, or leaves the pipeline by an exception; a step is
\* entered only from the step before it, with no engine process running;
\* and a pipeline that is over stays over.
C7_FixedStepOrder ==
    [][\A j \in Jobs :
          /\ fstate[j] \in {"absent", "pending"} => pc[j] = "cap2hccapx"
          /\ pc'[j] # pc[j]
                => /\ pc[j] \notin {"done", "raised"}
                   /\ \/ pc'[j] = "raised"
                      \/ StepRank(pc'[j]) = StepRank(pc[j])
                      \/ StepRank(pc'[j]) = StepRank(pc[j]) + 1
                   /\ pc'[j] \in CallPositions \cup {"done"}
                         => /\ StepRank(pc'[j]) = StepRank(pc[j]) + 1
                            /\ proc'[j] # "running"]_vars

C7_Witness ==
    \E j \in Jobs :
        /\ pc[j] = "done"
        /\ lock[j].completed
        /\ proc[j] \in {"exit_zero", "exit_nonzero"}

\* C8 as stated: an engine process that has exited with a non-zero status
\* has made its step fail, so the pipeline has been left by an exception.
C8_NonZeroExitAborts ==
    \A j \in Jobs : proc[j] = "exit_nonzero" => pc[j] = "raised"

\* C8: no step is entered twice; once a step has raised (the process could
\* not be started, or run_with_status raised the cancellation or the
\* timeout) no position of the pipeline is entered any more and no engine
\* process is started; and when the completion handler has run for that
\* future, the exception's description is the status of the ProgressLock and
\* of the task record. A non-zero exit status is no failure.
C8_RaisingStepAborts ==
    /\ [][\A j \in Jobs :
            /\ pc'[j] # pc[j]
                  => /\ pc'[j] = "raised" \/ StepRank(pc'[j]) >= StepRank(pc[j])
                     /\ pc'[j] \in CallPositions => StepRank(pc'[j]) > StepRank(pc[j])
            /\ pc[j] = "raised"
                  => /\ pc'[j] = "raised"
                     /\ proc'[j] = "running" => proc[j] = "running"]_vars
    /\ [](\A j \in Jobs :
            /\ pc[j] = "raised" <=> (fstate[j] = "finished" /\ fexc[j] # NoExc)
            /\ (pc[j] = "raised" /\ cb_calls[j] >= 1)
                  => /\ lock[j].status = fexc[j].type \o "(" \o fexc[j].args \o ")"
                     /\ task[j].status = lock[j].status
                     /\ lock[j].completed)

C8_Witness ==
    \E j \in Jobs :
        /\ pc[j] = "raised"
        /\ fexc[j].type = "FileNotFoundError"
        /\ cb_calls[j] = 1
        /\ lock[j].status = "FileNotFoundError(2, 'No such file or directory')"

\* C9: when _crack_async has resolved the final state, the status is
\* "Completed" with the key read from the result file if that file exists,
\* the zero-handshakes status without a key if neither it nor the converted
\* capture exists, and "Completed" without a key otherwise; the job is marked
\* completed.
C9_FinalStateThreeWay ==
    \A j \in Jobs :
        (pc[j] = "done" /\ Held(j))
            => /\ lock[j].completed
               /\ key_file[j] # None
                     => (lock[j].status = "Completed" /\ lock[j].key = "password")
               /\ (key_file[j] = None /\ ~hcap_file[j])
                     => (lock[j].status = "0 WPA handshakes captured"
                         /\ lock[j].key = None)
               /\ (key_file[j] = None /\ hcap_file[j])
                     => (lock[j].status = "Completed" /\ lock[j].key = None)

C9_Witness ==
    \E j \in Jobs :
        /\ pc[j] = "done"
        /\ Held(j)
        /\ lock[j].status = "0 WPA handshakes captured"
        /\ ~hcap_file[j]

\* C10: while no cancellation is pending and the budget is not exceeded, no
\* line read by the run_with_status loop makes it raise: parsing a line
\* leaves the loop running.
C10_MalformedLineIgnored ==
    [][\A j \in Jobs : pc[j] = "parse_status" => pc'[j] # "raised"]_vars


\* ------------------------------------------- run_with_status on its own
\* C19: whenever the completion handler is called for a job, by the worker
\* thread, by terminate() or at once by add_done_callback, both maps hold
\* the job's id, and for a future that finished the handler runs to its end:
\* the lock is marked completed and the task is committed.
C19_MapsHoldJobBeforeHandler ==
    [][\A j \in Jobs :
          cb_calls'[j] # cb_calls[j]
             => /\ j \in DOMAIN locks'
                /\ j \in DOMAIN task_id_by_job_id'
                /\ \A i \in 1..Len(futures) : futures[i] = j => done_callbacks[j]
                /\ fstate'[j] = "finished"
                      => /\ lock'[j].completed
                         /\ task'[j].commits = task[j].commits + 1]_vars

C19_Witness ==
    \E j \in Jobs :
        /\ cb_calls[j] = 1
        /\ ~done_callbacks[j]
        /\ fstate[j] = "finished"
        /\ j \in DOMAIN locks
        /\ lock[j].completed
        /\ task[j].commits = 1

\* C20: run_essid_attack starts its digits sub-attack only after the test of
\* the essid and of the result file; when the digits sub-attack returns, the
\* rule sub-attack is started next, whether or not the result file is there,
\* and the step ends when the rule sub-attack returns.
C20_EssidChecksOnce ==
    [][\A j \in Jobs :
          /\ pc[j] = "run_essid_attack" /\ pc'[j] # pc[j]
                => IF essid[j] # None /\ is_attack_needed(j)
                   THEN \/ pc'[j] = "run_essid_digits" /\ proc'[j] = "running"
                        \/ pc'[j] = "raised" /\ fexc'[j] = PopenError
                   ELSE pc'[j] = NextCall("run_essid_attack") /\ proc'[j] = proc[j]
          /\ pc[j] = "run_essid_digits" /\ pc'[j] # pc[j]
                => pc'[j] = "run_essid_rule" /\ proc'[j] = "running"
          /\ pc[j] = "run_essid_rule" /\ pc'[j] # pc[j]
                => pc'[j] = NextCall("run_essid_attack") /\ proc'[j] # "running"
          /\ pc'[j] = "run_essid_rule" /\ pc[j] # pc'[j] => pc[j] = "run_essid_digits"]_vars

C20_Witness ==
    \E j \in Jobs :
        /\ pc[j] = "run_essid_rule"
        /\ proc[j] = "running"
        /\ key_file[j] # None
        /\ ~key_existed[j]

\* One invocation of run_with_status (hashcat_cmd.py 111-141) fed with any
\* stream of lines: rws holds the ProgressLock's fields, the timeout, the
\* clock ticks since start, the lines read so far, the values written to
\* lock.progress, the position (readline, parse, raised, returned), the
\* exception raised and whether process.terminate() was called.

\* Lines read in one invocation.
MaxStream == 2

\* The lines the engine may print, and a status record whose attempted count
\* is above its total.
StatusLines ==
    Lines \cup {Join(<<STATUS, <<"3">>, PROGRESS, <<"3", "0", "0">>, <<"2", "0", "0">>>>)}

statusFrame == <<fstate, fexc, work_queue, wcur, futures, locks, task_id_by_job_id,
                 done_callbacks, pc, timeout, wordlist, essid, hcap_file, key_file,
                 key_existed, proc, elapsed, lock, task, cb_calls,
                 plock, hashcat_cmd, stderr_split>>

InitStatus ==
    /\ InitWorker
    /\ plock = Unused
    /\ hashcat_cmd = Unused
    /\ stderr_split = Unused
    /\ \E t \in {r.timeout : r \in Requests} :
          rws = [lock |-> ProgressLock, timeout_minutes |-> t, ticks |-> 0,
                 stream |-> <<>>, seen |-> <<>>, at |-> "readline",
                 exc |-> NoExc, terminated |-> FALSE]

\* Line 121 to 129: a line is read, then the flag and the clock are looked at.
StatusReadLine ==
    /\ rws.at = "readline"
    /\ Len(rws.stream) < MaxStream
    /\ \E line \in StatusLines :
         LET r == run_with_status_check(rws.lock, rws.ticks * TickSeconds,
                                        rws.timeout_minutes)
         IN  rws' = [rws EXCEPT !.stream = Append(@, line),
                                !.terminated = r.terminate,
                                !.exc = r.exc,
                                !.at = IF r.exc # NoExc THEN "raised" ELSE "parse"]
    /\ UNCHANGED statusFrame

\* Lines 130 to 141 on the line just read.
StatusParse ==
    /\ rws.at = "parse"
    /\ LET line == rws.stream[Len(rws.stream)]
           r == run_with_status_parse(rws.lock, line)
       IN  rws' = [rws EXCEPT !.lock = r.lock,
                              !.seen = IF ParseStatus(line).kind = "progress"
                                       THEN Append(@, r.lock.progress) ELSE @,
                              !.exc = r.exc,
                              !.at = IF r.exc # NoExc THEN "raised" ELSE "readline"]
    /\ UNCHANGED statusFrame

\* readline() returns '': the loop ends and run_with_status returns.
StatusEof ==
    /\ rws.at = "readline"
    /\ rws' = [rws EXCEPT !.at = "returned"]
    /\ UNCHANGED statusFrame

\* Wall-clock time passes while the loop waits for a line.
StatusTick ==
    /\ rws.at = "readline"
    /\ rws.ticks < MaxTicks
    /\ rws' = [rws EXCEPT !.ticks = @ + 1]
    /\ UNCHANGED statusFrame

\* Another holder of the ProgressLock sets the cancellation flag.
StatusCancel ==
    /\ rws.at \in {"readline", "parse"}
    /\ ~rws.lock.cancelled
    /\ rws' = [rws EXCEPT !.lock.cancelled = TRUE]
    /\ UNCHANGED statusFrame

NextStatus ==
    \/ StatusReadLine
    \/ StatusParse
    \/ StatusEof
    \/ StatusTick
    \/ StatusCancel

SpecStatus == InitStatus /\ [][NextStatus]_vars

\* a <= b for two fractions with positive denominators.
Leq(a, b) == a.num * b.den <= b.num * a.den

\* C11: within one invocation of run_with_status, whatever lines the engine
\* prints, the stored progress lies between 0 and 100 and no step lowers it.
C11_ProgressInRangeAndMonotone ==
    /\ [](Leq(Percent(0, 1), rws.lock.progress) /\ Leq(rws.lock.progress, Percent(100, 100)))
    /\ [][Leq(rws.lock.progress, rws'.lock.progress)]_vars

\* A status record as the engine prints it: it begins with STATUS and its
\* PROGRESS field is followed by the attempted count and a total that is not
\* zero, both integers.
ProgressAt(line) == index(split(line), PROGRESS) + 1
WellFormed(line) ==
    LET parts == split(line)
        i == ProgressAt(line)
    IN  /\ startswith(line, STATUS)
        /\ i >= 1
        /\ i + 2 <= Len(parts)
        /\ IsInt(parts[i + 1])
        /\ IsInt(parts[i + 2])
        /\ int(parts[i + 2]) # 0
Attempted(line) == int(split(line)[ProgressAt(line) + 1])
Total(line) == int(split(line)[ProgressAt(line) + 2])
\* The step of the loop that looks at the line read (lines 130-141), and the
\* one that reads a line and looks at the flag and the clock (121-129).
ParseStep == rws.at = "parse" /\ rws'.at # "parse"
ReadLineStep == rws.at = "readline" /\ rws'.at \in {"parse", "raised"}
LastLine == rws.stream[Len(rws.stream)]
Stream50Then200 ==
    <<Join(<<STATUS, <<"3">>, PROGRESS, <<"5", "0">>, <<"2", "0", "0">>>>),
      Join(<<STATUS, <<"3">>, PROGRESS, <<"2", "0", "0">>, <<"2", "0", "0">>>>)>>

\* C17: a well-formed status line that passed the cancellation and timeout
\* checks sets the progress to exactly 100 * attempted / total and the loop
\* goes on; a line that does not begin with STATUS leaves every field of the
\* ProgressLock as it was; after the lines PROGRESS 50 200 and PROGRESS 200
\* 200 the values written are 25 and then 100.
C17_ProgressIsExactQuotient ==
    [][/\ ParseStep /\ WellFormed(LastLine)
            => /\ rws'.lock.progress.num * Total(LastLine)
                    = 100 * Attempted(LastLine) * rws'.lock.progress.den
               /\ rws'.lock.progress.den > 0
               /\ rws'.lock.cancelled = rws.lock.cancelled
               /\ rws'.at = "readline"
               /\ rws'.seen = Append(rws.seen, rws'.lock.progress)
       /\ ParseStep /\ ~startswith(LastLine, STATUS)
            => /\ rws'.lock = rws.lock
               /\ rws'.seen = rws.seen
               /\ rws'.at = "readline"
       /\ rws'.stream = Stream50Then200 /\ rws'.at = "readline"
            => rws'.seen = <<[num |-> 25, den |-> 1], [num |-> 100, den |-> 1]>>
      ]_vars

C17_Witness ==
    /\ rws.stream = Stream50Then200
    /\ rws.at = "readline"
    /\ rws.seen = <<[num |-> 25, den |-> 1], [num |-> 100, den |-> 1]>>
    /\ rws.lock.progress = [num |-> 100, den |-> 1]

\* C18: on every line read the cancellation flag is looked at before the
\* clock: with the flag set the loop ends in the cancellation error, also
\* when the time spent is over the timeout; with the flag clear and the time
\* spent over the timeout it ends in the timeout error; in both cases the
\* process is terminated, the ProgressLock keeps its fields and nothing
\* more is done with the line.
C18_CancellationBeforeTimeout ==
    [][/\ ReadLineStep /\ rws.lock.cancelled
            => rws'.exc = InterruptedErrorOf /\ rws'.at = "raised"
       /\ ReadLineStep /\ ~rws.lock.cancelled
                       /\ TimedOut(rws.ticks * TickSeconds, rws.timeout_minutes)
            => rws'.exc = TimeoutErrorOf(rws.timeout_minutes) /\ rws'.at = "raised"
       /\ ReadLineStep /\ rws'.at = "raised"
            => rws'.terminated /\ rws'.lock = rws.lock /\ rws'.seen = rws.seen
       /\ rws.at # "raised"
      ]_vars

C18_Witness ==
    /\ rws.at = "raised"
    /\ rws.exc = InterruptedErrorOf
    /\ rws.lock.cancelled
    /\ TimedOut(rws.ticks * TickSeconds, rws.timeout_minutes)
    /\ Len(rws.stream) = 2
    /\ WellFormed(LastLine)
    /\ Len(rws.seen) = 1

\* ---------------------------------------------- the users of a ProgressLock
\* The blocks of code that read or write a field of one job's ProgressLock,
\* each with the thread that runs it, whether it is the body of a
\* `with lock:` statement, and the fields it touches in order. The worker
\* thread runs the monitor loop and the pipeline task; the completion handler
\* runs on the worker thread or on the thread that submitted or cancelled the
\* future; the web layer sets the cancellation flag.
NoAccess == [rw |-> None, field |-> None]
Rd(field) == [rw |-> "read", field |-> field]
Wr(field) == [rw |-> "write", field |-> field]
LockBlocksHandlerCopyUnlocked ==
    { [by |-> "worker", code |-> "run_with_status 122-125", locked |-> TRUE,
       ops |-> <<Rd("cancelled")>>],
      [by |-> "handler", code |-> "callback_attack 269-272", locked |-> FALSE,
       ops |-> <<Rd("status"), Rd("progress"), Rd("key")>>] }
LockBlocks ==
    { [by |-> "worker", code |-> "run_with_status 122-125", locked |-> TRUE,
       ops |-> <<Rd("cancelled")>>],
      [by |-> "worker", code |-> "run_with_status 137-138", locked |-> TRUE,
       ops |-> <<Wr("progress")>>],
      [by |-> "worker", code |-> "_crack_async 211-212", locked |-> TRUE,
       ops |-> <<Wr("progress")>>],
      [by |-> "worker", code |-> "_crack_async 214-217", locked |-> TRUE,
       ops |-> <<Wr("status"), Wr("key"), Wr("completed")>>],
      [by |-> "handler", code |-> "callback_attack 260-266", locked |-> TRUE,
       ops |-> <<Wr("status"), Wr("completed")>>],
      [by |-> "handler", code |-> "callback_attack 269-272", locked |-> TRUE,
       ops |-> <<Rd("status"), Rd("progress"), Rd("key")>>],
      [by |-> "web", code |-> "cancel request", locked |-> TRUE,
       ops |-> <<Wr("cancelled")>>] }

LockThreads == {"worker", "handler", "web"}
\* A thread outside every block.
Outside ==
    [code |-> None, locked |-> FALSE, ops |-> <<>>, next |-> 1, inside |-> NoAccess,
     holds |-> FALSE]

lockFrame == <<fstate, fexc, work_queue, wcur, futures, locks, task_id_by_job_id,
               done_callbacks, pc, timeout, wordlist, essid, hcap_file, key_file,
               key_existed, proc, elapsed, lock, task, cb_calls,
               rws, hashcat_cmd, stderr_split>>

InitLock ==
    /\ InitWorker
    /\ rws = Unused
    /\ hashcat_cmd = Unused
    /\ stderr_split = Unused
    /\ plock = [owner |-> None, thread |-> [t \in LockThreads |-> Outside]]

\* A thread reaches one of its blocks.
LockReach(t) ==
    /\ plock.thread[t].code = None
    /\ \E b \in LockBlocks :
         /\ b.by = t
         /\ plock' = [plock EXCEPT !.thread[t] =
                        [code |-> b.code, locked |-> b.locked, ops |-> b.ops,
                         next |-> 1, inside |-> NoAccess, holds |-> FALSE]]
    /\ UNCHANGED lockFrame

\* `with lock:` is passed only when no thread owns the lock; the thread then
\* owns it.
LockAcquire(t) ==
    /\ plock.thread[t].code # None
    /\ plock.thread[t].locked
    /\ ~plock.thread[t].holds
    /\ plock.owner = None
    /\ plock' = [plock EXCEPT !.owner = t, !.thread[t].holds = TRUE]
    /\ UNCHANGED lockFrame

\* The thread, in the body of its block, begins its next access to a field.
LockAccess(t) ==
    /\ plock.thread[t].code # None
    /\ plock.thread[t].locked => plock.thread[t].holds
    /\ plock.thread[t].inside = NoAccess
    /\ plock.thread[t].next <= Len(plock.thread[t].ops)
    /\ plock' = [plock EXCEPT !.thread[t].inside = plock.thread[t].ops[plock.thread[t].next]]
    /\ UNCHANGED lockFrame

\* The access is over.
LockAccessEnd(t) ==
    /\ plock.thread[t].inside # NoAccess
    /\ plock' = [plock EXCEPT !.thread[t].inside = NoAccess, !.thread[t].next = @ + 1]
    /\ UNCHANGED lockFrame

\* The block ends; the lock a `with lock:` body holds is released.
LockExit(t) ==
    /\ plock.thread[t].code # None
    /\ plock.thread[t].inside = NoAccess
    /\ plock.thread[t].next > Len(plock.thread[t].ops)
    /\ plock' = [owner |-> IF plock.thread[t].holds THEN None ELSE plock.owner,
                 thread |-> [plock.thread EXCEPT ![t] = Outside]]
    /\ UNCHANGED lockFrame

NextLock ==
    \/ \E t \in LockThreads : LockReach(t)
    \/ \E t \in LockThreads : LockAcquire(t)
    \/ \E t \in LockThreads : LockAccess(t)
    \/ \E t \in LockThreads : LockAccessEnd(t)
    \/ \E t \in LockThreads : LockExit(t)

SpecLock == InitLock /\ [][NextLock]_vars

\* C12: a thread that is inside an access to a field of the ProgressLock, in
\* the monitor loop, the pipeline task or the completion handler, owns the
\* lock, and no two threads are inside an access at once.
C12_AccessesUnderTheLock ==
    /\ \A t \in LockThreads : plock.thread[t].inside # NoAccess => plock.owner = t
    /\ Cardinality({t \in LockThreads : plock.thread[t].inside # NoAccess}) <= 1

C12_Witness ==
    /\ plock.thread["handler"].inside = Rd("progress")
    /\ plock.thread["worker"].code = "_crack_async 214-217"
    /\ plock.thread["web"].code # None

\* --------------------------------------------------- shell quoting of tokens
\* A token is a sequence of characters; a fixed piece of a token that holds
\* only safe characters (an option name, "hashcat") is written as one element.
\* shlex.quote leaves a string of safe characters ([\w@%+=:,./-]) as it is,
\* turns the empty string into '' and wraps any other string in single quotes,
\* every single quote in it becoming '"'"'.
Unsafe == {" ", "'", "\"", "\\", "$"}
\* The characters of a quoted single quote: '"'"'
QuotedQuote == <<"'", "\"", "'", "\"", "'">>
RECURSIVE EscapeQuotes(_)
EscapeQuotes(s) ==
    IF s = <<>> THEN <<>>
    ELSE (IF Head(s) = "'" THEN QuotedQuote ELSE <<Head(s)>>) \o EscapeQuotes(Tail(s))
shlex_quoteNot(s) == s
shlex_quote(s) ==
    IF s = <<>> THEN <<"'", "'">>
    ELSE IF \A i \in 1..Len(s) : s[i] \notin Unsafe THEN s
    ELSE <<"'">> \o EscapeQuotes(s) \o <<"'">>

\* shlex.split (POSIX rules) from position i of the text s: mode is "plain",
\* "single" or "double"; word is the word being built, open whether one is
\* being built, words the words finished. Outside quotes a blank ends a word
\* and a backslash protects the next character; inside double quotes a
\* backslash protects only a double quote or a backslash. An unclosed quote
\* or a trailing backslash is an error (ValueError), reported as the one word "ValueError".
RECURSIVE shlex_splitFrom(_, _, _, _, _, _)
shlex_splitFrom(s, i, mode, word, open, words) ==
    IF i > Len(s)
    THEN IF mode # "plain" THEN <<<<"ValueError">>>>
         ELSE IF open THEN Append(words, word) ELSE words
    ELSE LET ch == s[i]
         IN  CASE mode = "single" ->
                    IF ch = "'" THEN shlex_splitFrom(s, i + 1, "plain", word, TRUE, words)
                    ELSE shlex_splitFrom(s, i + 1, "single", Append(word, ch), TRUE, words)
               [] mode = "double" ->
                    IF ch = "\"" THEN shlex_splitFrom(s, i + 1, "plain", word, TRUE, words)
                    ELSE IF ch = "\\" /\ i < Len(s) /\ s[i + 1] \in {"\"", "\\"}
                    THEN shlex_splitFrom(s, i + 2, "double", Append(word, s[i + 1]), TRUE, words)
                    ELSE shlex_splitFrom(s, i + 1, "double", Append(word, ch), TRUE, words)
               [] OTHER ->
                    IF ch = " "
                    THEN shlex_splitFrom(s, i + 1, "plain", <<>>, FALSE,
                                         IF open THEN Append(words, word) ELSE words)
                    ELSE IF ch = "'" THEN shlex_splitFrom(s, i + 1, "single", word, TRUE, words)
                    ELSE IF ch = "\"" THEN shlex_splitFrom(s, i + 1, "double", word, TRUE, words)
                    ELSE IF ch = "\\"
                    THEN IF i = Len(s) THEN <<<<"ValueError">>>>
                         ELSE shlex_splitFrom(s, i + 2, "plain", Append(word, s[i + 1]), TRUE, words)
                    ELSE shlex_splitFrom(s, i + 1, "plain", Append(word, ch), TRUE, words)
shlex_split(s) == shlex_splitFrom(s, 1, "plain", <<>>, FALSE, <<>>)

\* ------------------------------------------------------------- HashcatCmd
\* One HashcatCmd object (hashcat_cmd.py 43-108), the calls made on it and
\* what build() returned last. hashcat_cmd holds the object's fields, the
\* POTFILE_DISABLE environment variable, the wordlists handed to
\* add_wordlists so far (added), and the command built (built, command).

\* Rules held by one object, and entries of its wordlist list.
MaxRules == 1
MaxWordlists == 2

WordlistPaths == {<<"w">>, <<"w", " ", "2">>}
WordlistOptions == {<<>>, <<<<"--opt">>>>}
RulePaths == {<<"best64.rule">>, <<"my", " ", "r">>}
MaskPaths == {<<"m.hcmask">>}
Sessions == {<<None>>, <<"s", "'", "1">>}
HASHCAT_STATUS_TIMER == <<"timer">>
Classes == {"HashcatCmd", "HashcatCmdCapture", "HashcatCmdStdout"}

\* HashcatCmdCapture._populate_class_specific and its two siblings: the
\* tokens the class appends to the command.
populate_class_specificHcapFirst(o, env) ==
    IF o.cls = "HashcatCmdCapture"
    THEN <<o.hcap_file>> \o (IF env = "1" THEN <<<<"--potfile-disable">>>> ELSE <<>>)
         \o <<<<"--status">>, <<"--status-timer=">> \o HASHCAT_STATUS_TIMER,
              <<"--machine-readable">>>>
    ELSE IF o.cls = "HashcatCmdStdout" THEN <<<<"--stdout">>>>
    ELSE <<>>
populate_class_specific(o, env) ==
    IF o.cls = "HashcatCmdCapture"
    THEN (IF env = "1" THEN <<<<"--potfile-disable">>>> ELSE <<>>)
         \o <<<<"--status">>, <<"--status-timer=">> \o HASHCAT_STATUS_TIMER,
              <<"--machine-readable">>, o.hcap_file>>
    ELSE IF o.cls = "HashcatCmdStdout" THEN <<<<"--stdout">>>>
    ELSE <<>>

\* The --rules tokens of the rules that are not None, lines 55-58.
RECURSIVE RuleTokens(_)
RuleTokens(rules) ==
    IF rules = <<>> THEN <<>>
    ELSE (IF Head(rules) = <<None>> THEN <<>>
          ELSE <<<<"--rules=">> \o shlex_quote(Head(rules))>>) \o RuleTokens(Tail(rules))

\* The tokens of the wordlists, lines 67-68.
WordlistTokens(wordlists) == [i \in 1..Len(wordlists) |-> shlex_quote(wordlists[i])]

\* The mask or the wordlists, lines 63-68.
AttackTokensBoth(o) ==
    (IF o.mask # <<None>> THEN <<<<"-a3">>, o.mask>> ELSE <<>>) \o WordlistTokens(o.wordlists)
AttackTokens(o) ==
    IF o.mask # <<None>> THEN <<<<"-a3">>, o.mask>> ELSE WordlistTokens(o.wordlists)

\* HashcatCmd.build, lines 53-70.
build(o, env) ==
    <<<<"hashcat">>, <<"-d 2">>, <<"-m">> \o o.mode>> \o o.hashcat_args
    \o RuleTokens(o.rules)
    \o <<<<"--outfile=">> \o shlex_quote(o.outfile)>>
    \o (IF o.session # <<None>> THEN <<<<"--session=">> \o shlex_quote(o.session)>> ELSE <<>>)
    \o populate_class_specific(o, env)
    \o AttackTokens(o)
    \o <<<<"--force">>>>

cmdFrame == <<fstate, fexc, work_queue, wcur, futures, locks, task_id_by_job_id,
              done_callbacks, pc, timeout, wordlist, essid, hcap_file, key_file,
              key_existed, proc, elapsed, lock, task, cb_calls,
              rws, plock, stderr_split>>

\* HashcatCmd.__init__ / HashcatCmdCapture.__init__, lines 44-51 and 91-94.
HashcatCmd(cls, outfile, hashcat_args, session) ==
    [cls |-> cls, outfile |-> outfile, mode |-> <<"22000">>, session |-> session,
     rules |-> <<>>, wordlists |-> <<>>, mask |-> <<None>>,
     hashcat_args |-> hashcat_args,
     hcap_file |-> IF cls = "HashcatCmdCapture" THEN <<"cap.22000">> ELSE <<None>>]

InitCmd ==
    /\ InitWorker
    /\ rws = Unused
    /\ plock = Unused
    /\ stderr_split = Unused
    /\ \E cls \in Classes, env \in {"unset", "0", "1"}, session \in Sessions,
          hashcat_args \in {<<>>, <<<<"-O">>>>} :
          hashcat_cmd = [obj |-> HashcatCmd(cls, <<"out.key">>, hashcat_args, session),
                         env |-> env, added |-> <<>>, built |-> FALSE, command |-> <<>>]

\* The object after a call that changed it: a command built before is stale.
Changed(o, added) ==
    [hashcat_cmd EXCEPT !.obj = o, !.added = added, !.built = FALSE, !.command = <<>>]

\* add_rule, lines 72-73.
add_rule(rulePool) ==
    /\ Len(hashcat_cmd.obj.rules) < MaxRules
    /\ \E rule \in rulePool :
          hashcat_cmd' = Changed([hashcat_cmd.obj EXCEPT !.rules = Append(@, rule)],
                                 hashcat_cmd.added)
    /\ UNCHANGED cmdFrame
CmdAddRule == add_rule(RulePaths \cup {<<None>>})

\* add_wordlists, lines 75-81: the options come first, then the wordlists.
add_wordlists(optionPool, wordlistPool) ==
    /\ \E options \in optionPool, n \in 0..2 :
         \E wordlists \in [1..n -> wordlistPool] :
            /\ Len(options) + n > 0
            /\ Len(hashcat_cmd.obj.wordlists) + Len(options) + n <= MaxWordlists
            /\ hashcat_cmd' =
                 Changed([hashcat_cmd.obj EXCEPT !.wordlists = @ \o options \o wordlists],
                         hashcat_cmd.added \o wordlists)
    /\ UNCHANGED cmdFrame
CmdAddWordlists == add_wordlists(WordlistOptions, WordlistPaths)

\* set_mask, lines 83-84.
CmdSetMask ==
    /\ \E mask \in MaskPaths :
          /\ hashcat_cmd.obj.mask # mask
          /\ hashcat_cmd' = Changed([hashcat_cmd.obj EXCEPT !.mask = mask],
                                    hashcat_cmd.added)
    /\ UNCHANGED cmdFrame

\* build(), lines 53-70.
CmdBuild ==
    /\ ~hashcat_cmd.built
    /\ hashcat_cmd' = [hashcat_cmd EXCEPT !.built = TRUE,
                                          !.command = build(hashcat_cmd.obj, hashcat_cmd.env)]
    /\ UNCHANGED cmdFrame

NextCmd ==
    \/ CmdAddRule
    \/ CmdAddWordlists
    \/ CmdSetMask
    \/ CmdBuild

SpecCmd == InitCmd /\ [][NextCmd]_vars

\* The token is the escaped form of a wordlist path.
IsWordlistToken(tok) == \E w \in WordlistPaths : tok = shlex_quote(w)
IsMaskToken(tok) == tok = <<"-a3">> \/ tok \in MaskPaths

\* C13: whatever calls of add_wordlists, add_rule and set_mask came before,
\* the sequence build() returned holds no wordlist token when a mask is set,
\* and when none is set it holds no -a3 and no mask token and its wordlist
\* tokens are the wordlists added, escaped, in the order they were added.
C13_MaskExcludesWordlists ==
    hashcat_cmd.built
        => IF hashcat_cmd.obj.mask # <<None>>
           THEN SelectSeq(hashcat_cmd.command, IsWordlistToken) = <<>>
           ELSE /\ SelectSeq(hashcat_cmd.command, IsMaskToken) = <<>>
                /\ SelectSeq(hashcat_cmd.command, IsWordlistToken)
                      = [i \in 1..Len(hashcat_cmd.added) |-> shlex_quote(hashcat_cmd.added[i])]

C13_Witness ==
    /\ hashcat_cmd.built
    /\ hashcat_cmd.obj.mask # <<None>>
    /\ Len(hashcat_cmd.added) = 2
    /\ hashcat_cmd.added[1] # hashcat_cmd.added[2]
    /\ SelectSeq(hashcat_cmd.command, IsMaskToken) # <<>>

\* The first pieces of the tokens that are options of the engine; every
\* other token but the program name is a positional argument.
OptionPieces ==
    {"-d 2", "-m", "-O", "--opt", "--rules=", "--outfile=", "--session=",
     "--potfile-disable", "--status", "--status-timer=", "--machine-readable",
     "--stdout", "-a3", "--force"}
IsOption(tok) == tok # <<>> /\ tok[1] \in OptionPieces
IsPositional(tok) == ~IsOption(tok) /\ tok # <<"hashcat">>

\* The place of the handshake file in the command built by the capture variant.
HcapAt(command) == CHOOSE i \in 1..Len(command) : command[i] = hashcat_cmd.obj.hcap_file
CaptureBuilt == hashcat_cmd.built /\ hashcat_cmd.obj.cls = "HashcatCmdCapture"

\* C14 as stated: in the command the capture variant built, --status,
\* --status-timer=<interval>, --machine-readable and the handshake file follow
\* one another, --potfile-disable before them exactly when the toggle is set,
\* and the handshake file is the last positional argument of the command.
C14_HandshakeFileLastPositional ==
    CaptureBuilt
        => LET c == hashcat_cmd.command
               h == HcapAt(c)
           IN  /\ h > 3
               /\ c[h - 3] = <<"--status">>
               /\ c[h - 2] = <<"--status-timer=">> \o HASHCAT_STATUS_TIMER
               /\ c[h - 1] = <<"--machine-readable">>
               /\ (hashcat_cmd.env = "1") <=> (c[h - 4] = <<"--potfile-disable">>)
               /\ \A k \in (h + 1)..Len(c) : ~IsPositional(c[k])

\* C14: in the command the capture variant built, --status,
\* --status-timer=<interval>, --machine-readable and the handshake file follow
\* one another, --potfile-disable just before them exactly when the toggle is
\* set and nowhere otherwise; the handshake file is the last token the
\* variant appends and the first positional argument of the command: after
\* it come only -a3 and the mask, or the wordlists, and then --force.
C14_HandshakeFileFirstPositional ==
    CaptureBuilt
        => LET c == hashcat_cmd.command
               h == HcapAt(c)
           IN  /\ h > 4
               /\ c[h - 3] = <<"--status">>
               /\ c[h - 2] = <<"--status-timer=">> \o HASHCAT_STATUS_TIMER
               /\ c[h - 1] = <<"--machine-readable">>
               /\ (hashcat_cmd.env = "1") <=> (c[h - 4] = <<"--potfile-disable">>)
               /\ hashcat_cmd.env # "1"
                     => /\ c[h - 4][1] \in {"--outfile=", "--session="}
                        /\ \A k \in 1..Len(c) : c[k] # <<"--potfile-disable">>
               /\ \A k \in 1..(h - 1) : ~IsPositional(c[k])
               /\ SubSeq(c, h + 1, Len(c)) = AttackTokens(hashcat_cmd.obj) \o <<<<"--force">>>>

C14_Witness ==
    /\ CaptureBuilt
    /\ hashcat_cmd.env = "1"
    /\ hashcat_cmd.obj.mask = <<None>>
    /\ Len(hashcat_cmd.added) = 2
    /\ hashcat_cmd.command[Len(hashcat_cmd.command) - 3] = hashcat_cmd.obj.hcap_file

\* --------------------------------------------------- split_warnings_errors
\* split_warnings_errors (hashcat_cmd.py 21-40) applied to one stderr text.
\* The text is a sequence of pieces: a line break ("\n", "\r"; "\r\n" is one
\* break), or a run of other characters written as one element. Every
\* pattern of HASHCAT_WARNINGS is "nvmlDeviceGet" followed by a second piece.

\* Pieces of one stderr text.
MaxStderr == 6

HASHCAT_WARNINGS ==
    <<<<"nvmlDeviceGet", "CurrPcieLinkWidth">>,
      <<"nvmlDeviceGet", "ClockInfo">>,
      <<"nvmlDeviceGet", "TemperatureThreshold">>,
      <<"nvmlDeviceGet", "UtilizationRates">>,
      <<"nvmlDeviceGet", "PowerManagementLimit">>,
      <<"nvmlDeviceGet", "UtilizationRates">>>>
StderrPieces == {"nvmlDeviceGet", "ClockInfo", "x", "\n", "\r"}

\* warn_pattern in line
Contains(line, pattern) ==
    \E a \in 1..(Len(line) - Len(pattern) + 1) :
        SubSeq(line, a, a + Len(pattern) - 1) = pattern

\* is_warning, lines 23-27.
is_warningNever(line) == FALSE
is_warning(line) == \E i \in 1..Len(HASHCAT_WARNINGS) : Contains(line, HASHCAT_WARNINGS[i])

\* str.splitlines from position i of s: line is the line being read, lines
\* the lines finished. A break ends a line, "\r\n" counts as one break, and
\* the text after the last break is a line only if it is not empty.
RECURSIVE splitlinesFrom(_, _, _, _)
splitlinesFrom(s, i, line, lines) ==
    IF i > Len(s) THEN (IF line = <<>> THEN lines ELSE Append(lines, line))
    ELSE IF s[i] = "\r" /\ i < Len(s) /\ s[i + 1] = "\n"
    THEN splitlinesFrom(s, i + 2, <<>>, Append(lines, line))
    ELSE IF s[i] \in {"\n", "\r"}
    THEN splitlinesFrom(s, i + 1, <<>>, Append(lines, line))
    ELSE splitlinesFrom(s, i + 1, Append(line, s[i]), lines)
splitlines(s) == splitlinesFrom(s, 1, <<>>, <<>>)

\* '\n'.join(lines)
RECURSIVE join(_)
join(lines) ==
    IF lines = <<>> THEN <<>>
    ELSE IF Len(lines) = 1 THEN lines[1]
    ELSE lines[1] \o <<"\n">> \o join(Tail(lines))

\* The loop of lines 31-37 from line i on: [warn, err] as lists of lines.
RECURSIVE split_loop(_, _, _, _)
split_loop(lines, i, warn, err) ==
    IF i > Len(lines) THEN [warn |-> warn, err |-> err]
    ELSE IF lines[i] = <<>> THEN split_loop(lines, i + 1, warn, err)
    ELSE IF is_warning(lines[i]) THEN split_loop(lines, i + 1, Append(warn, lines[i]), err)
    ELSE split_loop(lines, i + 1, warn, Append(err, lines[i]))

\* split_warnings_errors, lines 21-40.
split_warnings_errors(stderr) ==
    LET r == split_loop(splitlines(stderr), 1, <<>>, <<>>)
    IN  [warn |-> join(r.warn), err |-> join(r.err)]

splitFrame == <<fstate, fexc, work_queue, wcur, futures, locks, task_id_by_job_id,
                done_callbacks, pc, timeout, wordlist, essid, hcap_file, key_file,
                key_existed, proc, elapsed, lock, task, cb_calls,
                rws, plock, hashcat_cmd>>

InitSplit ==
    /\ InitWorker
    /\ rws = Unused
    /\ plock = Unused
    /\ hashcat_cmd = Unused
    /\ \E n \in 0..MaxStderr :
         \E stderr \in [1..n -> StderrPieces] :
            stderr_split = [stderr |-> stderr, returned |-> FALSE, warn |-> <<>>, err |-> <<>>]

SplitWarningsErrors ==
    /\ ~stderr_split.returned
    /\ LET r == split_warnings_errors(stderr_split.stderr)
       IN  stderr_split' = [stderr_split EXCEPT !.returned = TRUE, !.warn = r.warn, !.err = r.err]
    /\ UNCHANGED splitFrame

NextSplit == SplitWarningsErrors

SpecSplit == InitSplit /\ [][NextSplit]_vars

\* The non-empty lines of a text, in order: its maximal runs of pieces that
\* are not line breaks.
IsBreak(c) == c \in {"\n", "\r"}
RunStarts(s) == {a \in 1..Len(s) : ~IsBreak(s[a]) /\ (a = 1 \/ IsBreak(s[a - 1]))}
RunFrom(s, a) ==
    LET b == CHOOSE b \in a..Len(s) :
                 /\ \A k \in a..b : ~IsBreak(s[k])
                 /\ b = Len(s) \/ IsBreak(s[b + 1])
    IN  SubSeq(s, a, b)
RECURSIVE RunsOf(_, _)
RunsOf(s, starts) ==
    IF starts = {} THEN <<>>
    ELSE LET a == CHOOSE a \in starts : \A b \in starts : a <= b
         IN  <<RunFrom(s, a)>> \o RunsOf(s, starts \ {a})
NonEmptyLines(s) == RunsOf(s, RunStarts(s))
Benign(line) == \E i \in 1..Len(HASHCAT_WARNINGS) : Contains(line, HASHCAT_WARNINGS[i])
NotBenign(line) == ~Benign(line)
\* The text holds no empty line: no break at either end, no two in a row.
NoEmptyLine(s) ==
    /\ s # <<>> => ~IsBreak(s[1]) /\ ~IsBreak(s[Len(s)])
    /\ \A k \in 1..(Len(s) - 1) : ~(IsBreak(s[k]) /\ IsBreak(s[k + 1]))

\* C15: the lines of the warnings returned are the non-empty lines of the
\* input that contain a known benign substring, the lines of the errors
\* returned are its other non-empty lines, both in input order, and neither
\* result holds an empty line.
C15_LosslessOrderedPartition ==
    stderr_split.returned
        => /\ NonEmptyLines(stderr_split.warn)
                = SelectSeq(NonEmptyLines(stderr_split.stderr), Benign)
           /\ NonEmptyLines(stderr_split.err)
                = SelectSeq(NonEmptyLines(stderr_split.stderr), NotBenign)
           /\ NoEmptyLine(stderr_split.warn)
           /\ NoEmptyLine(stderr_split.err)

C15_Witness ==
    /\ stderr_split.returned
    /\ Len(NonEmptyLines(stderr_split.warn)) = 1
    /\ Len(NonEmptyLines(stderr_split.err)) = 2
    /\ NonEmptyLines(stderr_split.err)[1] # NonEmptyLines(stderr_split.err)[2]
    /\ stderr_split.stderr[3] = "\n"

\* ------------------------------------------ escaping of the path tokens
\* One HashcatCmd object given one path, of any characters, as its output
\* file, its session name, a rule or a wordlist, and then built.

\* Characters of one path.
MaxPathLen == 3

ShellAlphabet == {"a", " ", "'", "\"", "\\", "$"}
ShellPaths == UNION {[1..n -> ShellAlphabet] : n \in 0..MaxPathLen}
PathKinds == {"outfile", "session", "rule", "wordlist"}

InitQuote ==
    /\ InitWorker
    /\ rws = Unused
    /\ plock = Unused
    /\ stderr_split = Unused
    /\ \E path \in ShellPaths, kind \in PathKinds :
          hashcat_cmd =
             [obj |-> HashcatCmd("HashcatCmd",
                                 IF kind = "outfile" THEN path ELSE <<"out.key">>,
                                 <<>>,
                                 IF kind = "session" THEN path ELSE <<None>>),
              env |-> "unset", added |-> <<>>, built |-> FALSE, command |-> <<>>,
              kind |-> kind, path |-> path]

QuoteAddRule == hashcat_cmd.kind = "rule" /\ add_rule({hashcat_cmd.path})
QuoteAddWordlists == hashcat_cmd.kind = "wordlist" /\ add_wordlists({<<>>}, {hashcat_cmd.path})

NextQuote ==
    \/ QuoteAddRule
    \/ QuoteAddWordlists
    \/ CmdBuild

SpecQuote == InitQuote /\ [][NextQuote]_vars

\* The tokens of the command that begin with the option name.
TokensOf(command, option) ==
    SelectSeq(command, LAMBDA tok : tok # <<>> /\ tok[1] = option)
\* What a shell-compatible parser makes of each token.
Unescaped(tokens) == [i \in 1..Len(tokens) |-> shlex_split(tokens[i])]
\* Each value with its option name as one word.
Words(option, values) == [i \in 1..Len(values) |-> <<option \o values[i]>>]

\* C16: in the command build() returned, the token of every rule path, of
\* the output path, of the session name and of every wordlist path is read
\* back by a shell-compatible parser as exactly one word, the option name
\* (if any) followed by the original value, whatever blanks, quotes,
\* backslashes or dollar signs the value holds.
C16_PathTokensRoundTrip ==
    hashcat_cmd.built
        => LET c == hashcat_cmd.command
               o == hashcat_cmd.obj
               n == Len(o.wordlists)
           IN  /\ Unescaped(TokensOf(c, "--rules="))
                     = Words(<<"--rules=">>, SelectSeq(o.rules, LAMBDA r : r # <<None>>))
               /\ Unescaped(TokensOf(c, "--outfile=")) = Words(<<"--outfile=">>, <<o.outfile>>)
               /\ Unescaped(TokensOf(c, "--session="))
                     = Words(<<"--session=">>, IF o.session = <<None>> THEN <<>> ELSE <<o.session>>)
               /\ o.mask = <<None>>
                     => Unescaped(SubSeq(c, Len(c) - n, Len(c) - 1)) = Words(<<>>, o.wordlists)

C16_Witness ==
    /\ hashcat_cmd.built
    /\ hashcat_cmd.kind = "wordlist"
    /\ hashcat_cmd.path = <<"a", " ", "'">>
    /\ hashcat_cmd.obj.wordlists = <<hashcat_cmd.path, hashcat_cmd.path>>
    /\ hashcat_cmd.command[Len(hashcat_cmd.command) - 1] # hashcat_cmd.path

====
